---- MODULE Spec2Model ----
(***************************************************************************)
(* btleplug-c: the C-callable bridge around the asynchronous BLE central   *)
(* stack (src/src/lib.rs).  One Module, its peripheral handles, the tasks  *)
(* spawned on the Module's runtime and the event dispatcher tasks.         *)
(*                                                                         *)
(* Entry points are steps of the host thread.  A spawned task is a         *)
(* separate process whose steps are the stretches of code between two      *)
(* await points.  The tokio Runtime lives inside ModuleInt: it is dropped  *)
(* when the last Arc<ModuleInt> goes away, and dropping it cancels every   *)
(* task that is parked at an await.                                        *)
(***************************************************************************)
EXTENDS Integers, Sequences, FiniteSets, TLC

(* ---- bounds of the model ---- *)
MaxHandles == 2
MaxOps == 1
MaxDisp == 2
\* how often the host of the dispatcher scenario registers its callbacks
MaxRegs == 1
MaxEvents == 2
MaxScans == 2
MaxNotes == 2
MaxServices == 2

(* ---- status codes, lib.rs 21-34 ---- *)
SUCCESS == 0
ERROR_FAIL == 1
INVALID_ARGUMENT == 2
ERROR_PERMISSION_DENIED == 101
ERROR_DEVICE_NOT_FOUND == 102
ERROR_NOT_CONNECTED == 103
ERROR_UNEXPECTED_CALLBACK == 104
ERROR_UNEXPECTED_CHARACTERISTIC == 105
ERROR_NO_SUCH_CHARACTERISTIC == 106
ERROR_NOT_SUPPORTED == 107
ERROR_TIMED_OUT == 108
ERROR_UUID == 109
ERROR_INVALID_BD_ADDR == 110
ERROR_RUNTIME_ERROR == 111

\* the upper end of the accepted filter count, the 1..=100 arm of start_scan_peripherals
MaxFilters == 100
\* the range of the i32 service_uuid_count
I32Max == 2147483647
I32Min == (-I32Max) - 1

\* a null pointer; the Module handle is pointer MOD, peripheral handles are 1..MaxHandles
NULL == 0
MOD == 1

(* ---- the underlying stack's errors ---- *)
\* btleplug::Error: the variant, and whether its Display text holds an interior NUL
ErrorVariants ==
    {"PermissionDenied", "DeviceNotFound", "NotConnected", "UnexpectedCallback",
     "UnexpectedCharacteristic", "NoSuchCharacteristic", "NotSupported", "TimedOut",
     "Uuid", "InvalidBDAddr", "RuntimeError", "Other"}

Err(v, nul) == [v |-> v, nul |-> nul]

\* the value of a BleResult that is Ok
Ok == [v |-> "Ok", nul |-> FALSE]

\* the failures the environment injects into operations
OpFailures == {Err("NotConnected", FALSE), Err("Other", TRUE)}

\* the failures of get_manager(): Manager::new / adapters() errors, or no adapter at all
InitFailures == {Err("RuntimeError", FALSE), Err("PermissionDenied", FALSE), Err("Other", FALSE)}

\* mutant of error_to_result: every error collapses to the generic failure code
error_to_result_generic(e) == ERROR_FAIL

error_to_result(e) ==
    CASE e.v = "PermissionDenied" -> ERROR_PERMISSION_DENIED
      [] e.v = "DeviceNotFound" -> ERROR_DEVICE_NOT_FOUND
      [] e.v = "NotConnected" -> ERROR_NOT_CONNECTED
      [] e.v = "UnexpectedCallback" -> ERROR_UNEXPECTED_CALLBACK
      [] e.v = "UnexpectedCharacteristic" -> ERROR_UNEXPECTED_CHARACTERISTIC
      [] e.v = "NoSuchCharacteristic" -> ERROR_NO_SUCH_CHARACTERISTIC
      [] e.v = "NotSupported" -> ERROR_NOT_SUPPORTED
      [] e.v = "TimedOut" -> ERROR_TIMED_OUT
      [] e.v = "Uuid" -> ERROR_UUID
      [] e.v = "InvalidBDAddr" -> ERROR_INVALID_BD_ADDR
      [] e.v = "RuntimeError" -> ERROR_RUNTIME_ERROR
      [] e.v = "Other" -> ERROR_FAIL

\* e.to_string(): the Display text of the error, one text per variant
Display(e) == e.v

\* CString::new(e.to_string()).unwrap_or("Unknown error"): an interior NUL is refused
error_into_cstring(e) == IF e.nul THEN "Unknown error" ELSE Display(e)

\* the text of the io::Error of a failed Runtime::new()
RuntimeStartError == "runtime start failed"

(* ---- addresses ---- *)
\* A u64 is written as its four 16-bit limbs, most significant first (the value is
\* l[1]*2^48 + l[2]*2^32 + l[3]*2^16 + l[4]): TLC's integers are 32 bits wide.
\* u64::from_be_bytes: byte 0 is the most significant
from_be_bytes(lbytes) ==
    [i \in 1..4 |-> lbytes[2 * i - 1] * 256 + lbytes[2 * i]]

\* mutant: the address is left-justified, lbytes[..6].copy_from_slice(&addr)
get_long_addr_left(a) ==
    LET lbytes == [i \in 1..8 |-> IF i <= 6 THEN a[i] ELSE 0]
    IN from_be_bytes(lbytes)

\* lbytes = [0u8; 8]; lbytes[2..].copy_from_slice(&addr); u64::from_be_bytes(lbytes)
get_long_addr(a) ==
    LET lbytes == [i \in 1..8 |-> IF i <= 2 THEN 0 ELSE a[i - 2]]
    IN from_be_bytes(lbytes)

\* no address: the value of an absent entry of the id-to-address table
NoAddr == <<>>

\* platform device ids and the hardware address each device reports
DeviceIds == {1, 2}
BDAddrOf(id) == IF id = 1 THEN <<0, 0, 0, 0, 1, 2>> ELSE <<170, 187, 204, 221, 238, 255>>

\* what the found callback may return: 0 rejects the handle, anything else takes it
FoundReturns == {0, 1, -1}

VARIABLES
    modHandle,   \* the caller's *mut CModule: "none", "live" or "freed"
    mi,          \* ModuleInt: runtime and adapter present?, last_error, dropped?
    scan,        \* what the adapter was last asked to scan for
    handles,     \* the CPeripheral boxes handed out by the dispatchers
    perr,        \* PeripheralHandle.last_error of each handle's shared state
    tasks,       \* the operation tasks spawned on the runtime
    disp,        \* the dispatcher tasks spawned by set_event_callbacks
    events,      \* the adapter's event stream so far
    lastCall     \* the entry point the host thread has just called and what it returned

vars == <<modHandle, mi, scan, handles, perr, tasks, disp, events, lastCall>>

Handles == 1..MaxHandles
Tasks == 1..MaxOps
Disps == 1..MaxDisp

\* the adapter's scan: running?, the filter of the last start_scan it was given, and
\* how often start_scan and stop_scan were called on it
NoScan == [active |-> FALSE, filter |-> <<>>, starts |-> 0, stops |-> 0]
\* a CPeripheral box; by, pos, shown and ret record the found call that handed it out,
\* dfrees how often the dispatcher released it
\* palive: the PeripheralHandle behind the box (device session, error slot) exists;
\* tree is what p.peripheral.services() returns: the attribute tree discovered so far
NoHandle == [state |-> "unalloc", id |-> 0, addr |-> NoAddr, services |-> <<>>, tree |-> <<>>,
             palive |-> FALSE,
             by |-> 0, pos |-> 0, shown |-> <<>>, ret |-> 0, dfrees |-> 0]
\* a spawned operation task; given is what the caller's buffer held when
\* peripheral_write was called, buf what it holds now, sent what the write transferred;
\* read is the text its callback got from peripheral_get_last_error;
\* notes is what its notification stream has yielded or
\* holds ready, npos how far the task has read it, data the calls of notify_callback
NoTask == [state |-> "unused", op |-> "", h |-> 0, res |-> Ok, cb |-> <<>>, wrote |-> FALSE,
           notes |-> <<>>, npos |-> 0, data |-> <<>>, given |-> 0, buf |-> 0, sent |-> 0,
           read |-> ""]
\* a dispatcher task: device_map, its place in the event stream, and the calls of the
\* disconnected callback it made
NoDisp == [pc |-> "unused", map |-> [i \in DeviceIds |-> NoAddr], pos |-> 0, dlog |-> <<>>]
\* a call of an entry point: the handle and the numeric and array arguments it was
\* given, the status it returned and the text it gave back
CallA(fn, h, n, arg, ret, out) ==
    [fn |-> fn, h |-> h, n |-> n, arg |-> arg, ret |-> ret, out |-> out]
Call(fn, h, n, ret, out) == CallA(fn, h, n, <<>>, ret, out)
\* the host thread is not returning from an entry point
NoCall == Call("", NULL, 0, SUCCESS, "")

Init ==
    /\ modHandle = "none"
    /\ mi = [runtime |-> FALSE, adapter |-> FALSE, last_error |-> "", alive |-> FALSE]
    /\ scan = NoScan
    /\ handles = [h \in Handles |-> NoHandle]
    /\ perr = [h \in Handles |-> ""]
    /\ tasks = [t \in Tasks |-> NoTask]
    /\ disp = [d \in Disps |-> NoDisp]
    /\ events = <<>>
    /\ lastCall = NoCall

\* the host passes null or a handle it was given and has not released
HostHolds(peripheral) ==
    IF peripheral = NULL THEN TRUE ELSE handles[peripheral].state = "caller"
HostHoldsModule(m) ==
    IF m = NULL THEN TRUE ELSE modHandle = "live"

(* ---- reference counting of Arc<ModuleInt> ---- *)
\* the strong references: the CModule box, every CPeripheral box, and a dispatcher
\* while it holds m (before it subscribed) or l_mod (while it resolves a device)
Strong(mh, hs, ds) ==
    (IF mh = "live" THEN 1 ELSE 0)
    + Cardinality({h \in Handles : hs[h].state = "caller"})
    + Cardinality({d \in Disps : ds[d].pc \in {"subscribing", "resolving"}})

\* Runtime drop: tasks parked at an await are dropped without running further
ShutdownTasks(ts) ==
    [t \in Tasks |-> IF ts[t].state \in {"pending", "streaming"}
                     THEN [ts[t] EXCEPT !.state = "cancelled"] ELSE ts[t]]

ShutdownDisps(ds) ==
    [d \in Disps |-> IF ds[d].pc = "listening"
                     THEN [ds[d] EXCEPT !.pc = "cancelled"] ELSE ds[d]]

(* ---- reference counting of Arc<PeripheralHandle> ---- *)
\* a task that still owns what it captured: it has not finished and was not dropped
InFlight(task) == task.state \in {"pending", "recorded", "streaming"}

\* mutant: only the CPeripheral box counts, the tasks borrow
peripheral_refs_box_only(h, hs, ts) == IF hs[h].state = "caller" THEN 1 ELSE 0

\* the strong references to the PeripheralHandle of h: p of the CPeripheral box, and
\* ap, the clone each spawned task owns
peripheral_refs(h, hs, ts) ==
    (IF hs[h].state = "caller" THEN 1 ELSE 0)
    + Cardinality({t \in Tasks : ts[t].h = h /\ InFlight(ts[t])})

\* Arc::drop: a PeripheralHandle without strong references is destroyed
Reap(hs, ts) ==
    [h \in Handles |-> IF hs[h].palive /\ peripheral_refs(h, hs, ts) = 0
                       THEN [hs[h] EXCEPT !.palive = FALSE] ELSE hs[h]]

\* the state after references were dropped, leaving module handle mh, handles hs and
\* dispatchers ds: the last drop destroys ModuleInt, and with it the Runtime
DropRefs(mh, hs, ds) ==
    /\ modHandle' = mh
    /\ IF mi.alive /\ Strong(mh, hs, ds) = 0
       THEN /\ mi' = [mi EXCEPT !.alive = FALSE]
            /\ tasks' = IF mi.runtime THEN ShutdownTasks(tasks) ELSE tasks
            /\ disp' = IF mi.runtime THEN ShutdownDisps(ds) ELSE ds
       ELSE /\ mi' = mi
            /\ tasks' = tasks
            /\ disp' = ds
    /\ handles' = Reap(hs, tasks')

(* ---- create_module, lib.rs 192-220 ---- *)
\* mutant: a failed adapter acquisition is reported but its message is not recorded
create_module_unrecorded(rt_ok, res) ==
    /\ lastCall = NoCall
    /\ modHandle = "none"
    /\ modHandle' = "live"
    /\ IF ~rt_ok
       THEN /\ mi' = [runtime |-> FALSE, adapter |-> FALSE,
                      last_error |-> RuntimeStartError, alive |-> TRUE]
            /\ lastCall' = Call("create_module", NULL, 0, ERROR_FAIL, "handle")
       ELSE IF res # Ok
       THEN /\ mi' = [runtime |-> TRUE, adapter |-> FALSE, last_error |-> "", alive |-> TRUE]
            /\ lastCall' = Call("create_module", NULL, 0, error_to_result(res), "handle")
       ELSE /\ mi' = [runtime |-> TRUE, adapter |-> TRUE, last_error |-> "", alive |-> TRUE]
            /\ lastCall' = Call("create_module", NULL, 0, SUCCESS, "handle")
    /\ UNCHANGED <<scan, handles, perr, tasks, disp, events>>

\* rt_ok: Runtime::new() succeeded; res: the result of runtime.block_on(get_manager())
create_module(rt_ok, res) ==
    /\ lastCall = NoCall
    /\ modHandle = "none"
    /\ modHandle' = "live"
    /\ IF ~rt_ok
       THEN /\ mi' = [runtime |-> FALSE, adapter |-> FALSE,
                      last_error |-> RuntimeStartError, alive |-> TRUE]
            /\ lastCall' = Call("create_module", NULL, 0, ERROR_FAIL, "handle")
       ELSE IF res # Ok
       THEN /\ mi' = [runtime |-> TRUE, adapter |-> FALSE,
                      last_error |-> error_into_cstring(res), alive |-> TRUE]
            /\ lastCall' = Call("create_module", NULL, 0, error_to_result(res), "handle")
       ELSE /\ mi' = [runtime |-> TRUE, adapter |-> TRUE, last_error |-> "", alive |-> TRUE]
            /\ lastCall' = Call("create_module", NULL, 0, SUCCESS, "handle")
    /\ UNCHANGED <<scan, handles, perr, tasks, disp, events>>

(* ---- the last-error locks, lib.rs 45-67, 906-921 ---- *)
\* the threads an entry point can be called on: the host's own thread, or a worker
\* thread of the Runtime when the call is made from inside a callback
Threads == {"host", "worker"}

\* variant: a lock that parks the calling thread wherever it is called
blocking_lock_anywhere(thread) == "acquired"

\* tokio::sync::Mutex::blocking_lock(): on a thread that is inside the Runtime it
\* panics instead of blocking.  Elsewhere it blocks until the lock is free; the tasks
\* hold the lock only inside the one statement that stores the message, so it is free
blocking_lock(thread) == IF thread = "worker" THEN "panic" ELSE "acquired"

\* a panic that leaves an extern "C" function: the process aborts, or (older
\* toolchains) the unwinding crosses the caller's frames and ends the task
PanicOutcomes == {"abort", "unwind"}

(* ---- get_last_module_error, lib.rs 906-912 ---- *)
get_last_module_error(m) ==
    /\ lastCall = NoCall
    /\ HostHoldsModule(m)
    /\ (m # NULL => blocking_lock("host") = "acquired")
    /\ lastCall' = IF m = NULL THEN Call("get_last_module_error", m, 0, SUCCESS, "null")
                   ELSE Call("get_last_module_error", m, 0, SUCCESS, mi.last_error)
    /\ UNCHANGED <<modHandle, mi, scan, handles, perr, tasks, disp, events>>

(* ---- free_ptr / free_module, lib.rs 923-934 ---- *)
free_module(m) ==
    /\ lastCall = NoCall
    /\ HostHoldsModule(m)
    /\ lastCall' = Call("free_module", m, 0, SUCCESS, "")
    /\ IF m = NULL
       THEN UNCHANGED <<modHandle, mi, handles, tasks, disp>>
       ELSE DropRefs("freed", handles, disp)
    /\ UNCHANGED <<scan, perr, events>>

(* ---- the validation shared by the Module entry points, lib.rs 234-239 ---- *)
\* mutant: a Module whose runtime is absent passes the validation
module_invalid_adapter_only(m) == ~m.adapter /\ m.runtime

\* m.adapter.is_none() || m.runtime.is_none()
module_invalid(m) == ~m.adapter \/ ~m.runtime

\* the first unused slot of a table, 0 when the bound of the model is reached
FreeDisp == IF \E d \in Disps : disp[d].pc = "unused"
            THEN CHOOSE d \in Disps : disp[d].pc = "unused" /\ \A e \in 1..(d - 1) : disp[e].pc # "unused"
            ELSE 0
FreeHandle == IF \E h \in Handles : handles[h].state = "unalloc"
              THEN CHOOSE h \in Handles : handles[h].state = "unalloc" /\ \A g \in 1..(h - 1) : handles[g].state # "unalloc"
              ELSE 0
FreeTask == IF \E t \in Tasks : tasks[t].state = "unused"
            THEN CHOOSE t \in Tasks : tasks[t].state = "unused" /\ \A u \in 1..(t - 1) : tasks[u].state # "unused"
            ELSE 0

(* ---- set_event_callbacks, lib.rs 223-338 ---- *)
set_event_callbacks(m) ==
    /\ lastCall = NoCall
    /\ HostHoldsModule(m)
    /\ IF m = NULL
       THEN /\ lastCall' = Call("set_event_callbacks", m, 0, INVALID_ARGUMENT, "")
            /\ UNCHANGED <<mi, disp>>
       ELSE IF module_invalid(mi)
       THEN /\ mi' = [mi EXCEPT !.last_error = "Invalid module"]
            /\ lastCall' = Call("set_event_callbacks", m, 0, INVALID_ARGUMENT, "")
            /\ UNCHANGED disp
       ELSE \* the task owns m, a clone of the Arc, until it has subscribed
            /\ FreeDisp # 0
            /\ disp' = [disp EXCEPT ![FreeDisp] = [NoDisp EXCEPT !.pc = "subscribing"]]
            /\ lastCall' = Call("set_event_callbacks", m, 0, SUCCESS, "")
            /\ UNCHANGED mi
    /\ UNCHANGED <<modHandle, scan, handles, perr, tasks, events>>

(* ---- start_scan_peripherals, lib.rs 341-402 ---- *)
\* a *mut Uuid: null, or the address of an array of UUIDs in the host's memory
NullPtr == [null |-> TRUE, mem |-> <<>>]
ArrayPtr(mem) == [null |-> FALSE, mem |-> mem]

\* mutant: the accepted range ends one early and the last UUID is not read
scan_filter_short(service_uuids, service_uuid_count) ==
    IF service_uuid_count = 0 THEN [tag |-> "filter", services |-> <<>>]
    ELSE IF service_uuid_count >= 1 /\ service_uuid_count < MaxFilters
    THEN IF service_uuids.null THEN [tag |-> "null", services |-> <<>>]
         ELSE [tag |-> "filter",
               services |-> [i \in 1..(service_uuid_count - 1) |-> service_uuids.mem[i]]]
    ELSE [tag |-> "range", services |-> <<>>]

\* match service_uuid_count { 0 => default, 1..=100 => the UUIDs read one by one, _ => error }
scan_filter(service_uuids, service_uuid_count) ==
    IF service_uuid_count = 0 THEN [tag |-> "filter", services |-> <<>>]
    ELSE IF service_uuid_count >= 1 /\ service_uuid_count <= MaxFilters
    THEN IF service_uuids.null THEN [tag |-> "null", services |-> <<>>]
         ELSE [tag |-> "filter",
               services |-> [i \in 1..service_uuid_count |-> service_uuids.mem[i]]]
    ELSE [tag |-> "range", services |-> <<>>]

\* the array argument as the call record keeps it
ArgOf(service_uuids) == service_uuids.mem
PtrOf(service_uuids) == IF service_uuids.null THEN "null" ELSE "array"

\* res: the result of runtime.block_on(adapter.start_scan(filter))
start_scan_peripherals(m, service_uuids, service_uuid_count, res) ==
    /\ lastCall = NoCall
    /\ HostHoldsModule(m)
    /\ LET fn == "start_scan_peripherals"
           n == service_uuid_count
           arg == ArgOf(service_uuids)
           ptr == PtrOf(service_uuids)
       IN
       IF m = NULL
       THEN /\ lastCall' = CallA(fn, m, n, arg, INVALID_ARGUMENT, ptr)
            /\ UNCHANGED <<mi, scan>>
       ELSE IF module_invalid(mi)
       THEN /\ mi' = [mi EXCEPT !.last_error = "Invalid module"]
            /\ lastCall' = CallA(fn, m, n, arg, INVALID_ARGUMENT, ptr)
            /\ UNCHANGED scan
       ELSE LET f == scan_filter(service_uuids, service_uuid_count) IN
            IF f.tag = "null"
            THEN /\ mi' = [mi EXCEPT !.last_error = "Null argument: service_uuids"]
                 /\ lastCall' = CallA(fn, m, n, arg, INVALID_ARGUMENT, ptr)
                 /\ UNCHANGED scan
            ELSE IF f.tag = "range"
            THEN /\ mi' = [mi EXCEPT !.last_error =
                                "Out of range: service_uuid_count must be in range 1..100"]
                 /\ lastCall' = CallA(fn, m, n, arg, ERROR_FAIL, ptr)
                 /\ UNCHANGED scan
            ELSE /\ scan.starts < MaxScans
                 /\ IF res = Ok
                    THEN /\ scan' = [scan EXCEPT !.active = TRUE, !.filter = f.services,
                                                 !.starts = @ + 1]
                         /\ lastCall' = CallA(fn, m, n, arg, SUCCESS, ptr)
                         /\ UNCHANGED mi
                    ELSE /\ scan' = [scan EXCEPT !.filter = f.services, !.starts = @ + 1]
                         /\ mi' = [mi EXCEPT !.last_error = error_into_cstring(res)]
                         /\ lastCall' = CallA(fn, m, n, arg, error_to_result(res), ptr)
    /\ UNCHANGED <<modHandle, handles, perr, tasks, disp, events>>

(* ---- stop_scan_peripherals, lib.rs 405-434 ---- *)
\* res: the result of runtime.block_on(adapter.stop_scan())
stop_scan_peripherals(m, res) ==
    /\ lastCall = NoCall
    /\ HostHoldsModule(m)
    /\ LET fn == "stop_scan_peripherals" IN
       IF m = NULL
       THEN /\ lastCall' = Call(fn, m, 0, INVALID_ARGUMENT, "")
            /\ UNCHANGED <<mi, scan>>
       ELSE IF module_invalid(mi)
       THEN /\ mi' = [mi EXCEPT !.last_error = "Invalid module"]
            /\ lastCall' = Call(fn, m, 0, INVALID_ARGUMENT, "")
            /\ UNCHANGED scan
       ELSE /\ scan.stops < MaxScans
            /\ IF res = Ok
               THEN /\ scan' = [scan EXCEPT !.active = FALSE, !.stops = @ + 1]
                    /\ lastCall' = Call(fn, m, 0, SUCCESS, "")
                    /\ UNCHANGED mi
               ELSE /\ scan' = [scan EXCEPT !.stops = @ + 1]
                    /\ mi' = [mi EXCEPT !.last_error = error_into_cstring(res)]
                    /\ lastCall' = Call(fn, m, 0, error_to_result(res), "")
    /\ UNCHANGED <<modHandle, handles, perr, tasks, disp, events>>

(* ---- the adapter's event stream ---- *)
Event(kind, id, services) == [kind |-> kind, id |-> id, services |-> services]

\* the services an advertisement may carry
AdvServices == {<<7, 8>>}

AdapterEvents ==
    {Event("DeviceDiscovered", id, <<>>) : id \in DeviceIds}
    \cup {Event("ServicesAdvertisement", id, sv) : id \in DeviceIds, sv \in AdvServices}
    \cup {Event("DeviceDisconnected", id, <<>>) : id \in DeviceIds}
    \cup {Event("DeviceUpdated", 1, <<>>)}

\* the adapter produces an event; every subscribed stream will yield it
EmitEvent(ev) ==
    /\ lastCall = NoCall
    /\ mi.alive /\ mi.adapter
    /\ Len(events) < MaxEvents
    /\ events' = Append(events, ev)
    /\ UNCHANGED <<modHandle, mi, scan, handles, perr, tasks, disp, lastCall>>

(* ---- the dispatcher task, lib.rs 245-334 ---- *)
\* a reference to ModuleInt is dropped inside task d, leaving handles hs and
\* dispatchers ds.  When it is the last one the Runtime is dropped on its own worker
\* thread: the scheduler is told to shut down and the drop then panics, so the task
\* ends there and every parked task is dropped.
DropInTask(d, hs, ds) ==
    /\ IF mi.alive /\ Strong(modHandle, hs, ds) = 0
       THEN /\ mi' = [mi EXCEPT !.alive = FALSE]
            /\ tasks' = ShutdownTasks(tasks)
            /\ disp' = [ShutdownDisps(ds) EXCEPT ![d].pc = "panicked"]
       ELSE /\ mi' = mi
            /\ tasks' = tasks
            /\ disp' = ds
    /\ handles' = Reap(hs, tasks')

\* mutant: an arm that calls nothing back leaves the loop
Parked_break(d) == "ended"

\* where task d is after it reached events.next().await again
Parked(d) == IF mi.alive THEN "listening" ELSE "cancelled"

\* adapter.events().await?, then Arc::downgrade(&m) and drop(m)
DispSubscribe(d, ok) ==
    /\ lastCall = NoCall
    /\ disp[d].pc = "subscribing"
    /\ DropInTask(d, handles,
                  [disp EXCEPT ![d].pc = IF ok THEN "listening" ELSE "ended",
                               ![d].pos = Len(events)])
    /\ UNCHANGED <<modHandle, scan, perr, events, lastCall>>

\* events.next().await yields the next event of the stream
DispPoll(d) ==
    /\ lastCall = NoCall
    /\ disp[d].pc = "listening"
    /\ disp[d].pos < Len(events)
    /\ disp' = [disp EXCEPT ![d].pc = "handling", ![d].pos = @ + 1]
    /\ UNCHANGED <<modHandle, mi, scan, handles, perr, tasks, events, lastCall>>

\* events.next().await yields None: the while-let loop ends
DispStreamEnd(d) ==
    /\ lastCall = NoCall
    /\ disp[d].pc = "listening"
    /\ disp' = [disp EXCEPT ![d].pc = "ended"]
    /\ UNCHANGED <<modHandle, mi, scan, handles, perr, tasks, events, lastCall>>

CurEvent(d) == events[disp[d].pos]

\* mutant: an id without an entry falls back to some entry of the table
device_map_get_any(map, id) ==
    IF map[id] # NoAddr THEN map[id]
    ELSE IF \E i \in DeviceIds : map[i] # NoAddr
         THEN map[CHOOSE i \in DeviceIds : map[i] # NoAddr]
         ELSE NoAddr

\* device_map.get(&id): NoAddr stands for None
device_map_get(map, id) == map[id]

\* the match arms up to their first await
DispHandle(d) ==
    /\ lastCall = NoCall
    /\ disp[d].pc = "handling"
    /\ LET ev == CurEvent(d) IN
       IF ev.kind \in {"DeviceDiscovered", "ServicesAdvertisement"}
       THEN \* weak.upgrade(): None breaks the loop, Some(l_mod) is held over the await
            disp' = [disp EXCEPT ![d].pc = IF mi.alive THEN "resolving" ELSE "ended"]
       ELSE IF ev.kind = "DeviceDisconnected"
       THEN \* device_map.get(&id): Some(addr) => disconnected(*addr)
            disp' = [disp EXCEPT ![d].pc = Parked(d),
                                 ![d].dlog = IF device_map_get(disp[d].map, ev.id) # NoAddr
                                             THEN Append(@, [pos |-> disp[d].pos,
                                                             addr |-> device_map_get(disp[d].map, ev.id)])
                                             ELSE @]
       ELSE disp' = [disp EXCEPT ![d].pc = Parked(d)]
    /\ UNCHANGED <<modHandle, mi, scan, handles, perr, tasks, events, lastCall>>

\* mutant: the handle is released whatever the callback returned
found_rejected_always(r) == TRUE

\* 0 == found(...)
found_rejected(r) == r = 0

\* the services the found callback is shown: (*raw).p.services, whatever the event
FoundServices(d, h) == h.services

\* mutant: the id is recorded only for a handle the callback took
DispResolved_forget(d, res, r) ==
    /\ lastCall = NoCall
    /\ disp[d].pc = "resolving"
    /\ LET ev == CurEvent(d)
           ds == [disp EXCEPT ![d].pc = "listening"]
       IN IF res = Ok
          THEN /\ FreeHandle # 0
               /\ LET h == FreeHandle
                      addr == get_long_addr(BDAddrOf(ev.id))
                      \* CPeripheral::new(Arc::clone(&l_mod), p, Vec::default())
                      raw == [NoHandle EXCEPT !.state = "caller", !.palive = TRUE, !.id = ev.id,
                                              !.addr = addr, !.by = d, !.pos = disp[d].pos]
                      called == [raw EXCEPT !.shown = FoundServices(d, raw), !.ret = r]
                      after == IF found_rejected(r)
                               THEN [called EXCEPT !.state = "freed", !.dfrees = @ + 1]
                               ELSE called
                  IN DropInTask(d, [handles EXCEPT ![h] = after],
                                IF found_rejected(r) THEN ds
                                ELSE [ds EXCEPT ![d].map[ev.id] = addr])
          ELSE /\ r = 0
               /\ DropInTask(d, handles, ds)
    /\ UNCHANGED <<modHandle, scan, perr, events, lastCall>>

\* adapter.peripheral(&id).await returned res; r is what the found callback returns
DispResolved(d, res, r) ==
    /\ lastCall = NoCall
    /\ disp[d].pc = "resolving"
    /\ LET ev == CurEvent(d)
           ds == [disp EXCEPT ![d].pc = "listening"]
       IN IF res = Ok
          THEN /\ FreeHandle # 0
               /\ LET h == FreeHandle
                      addr == get_long_addr(BDAddrOf(ev.id))
                      \* CPeripheral::new(Arc::clone(&l_mod), p, Vec::default())
                      raw == [NoHandle EXCEPT !.state = "caller", !.palive = TRUE, !.id = ev.id,
                                              !.addr = addr, !.by = d, !.pos = disp[d].pos]
                      called == [raw EXCEPT !.shown = FoundServices(d, raw), !.ret = r]
                      after == IF found_rejected(r)
                               THEN [called EXCEPT !.state = "freed", !.dfrees = @ + 1]
                               ELSE called
                  IN DropInTask(d, [handles EXCEPT ![h] = after],
                                [ds EXCEPT ![d].map[ev.id] = addr])
          ELSE /\ r = 0
               /\ DropInTask(d, handles, ds)
    /\ UNCHANGED <<modHandle, scan, perr, events, lastCall>>

(* ---- the per-peripheral operations, lib.rs 470-903 ---- *)
\* the entry points that take a completion callback and spawn a task
Ops == {"peripheral_is_connected", "peripheral_connect", "peripheral_disconnect",
        "peripheral_discover_services", "peripheral_register_notification_events",
        "peripheral_subscribe", "peripheral_unsubscribe", "peripheral_write"}

\* a non-null data pointer of peripheral_write
BUF == 1
\* what the memory at data holds: the payload the host put there for the call, what
\* the host writes over it later, or nothing the host owns any more (released)
Payload == 1
Scribble == 2
Released == 0

\* peripheral.is_null()
handle_is_null(peripheral) == peripheral = NULL

\* mutant: the null check of the peripheral handle is missing
op_validate_unchecked(op, peripheral, data) ==
    IF op = "peripheral_write" /\ data = NULL THEN "Null argument: data"
    ELSE IF ~mi.runtime THEN "Invalid module"
    ELSE "accepted"

\* the validation of an operation's arguments: what it finds wrong (the message it
\* records), or "accepted"
op_validate(op, peripheral, data) ==
    IF handle_is_null(peripheral) THEN "null handle"
    ELSE IF op = "peripheral_write" /\ data = NULL THEN "Null argument: data"
    ELSE IF ~mi.runtime THEN "Invalid module"
    ELSE "accepted"

\* the bytes at data when the entry point is called
WriteBytes(op) == IF op = "peripheral_write" THEN Payload ELSE Released

\* mutant: the entry point waits for the operation and calls the callback itself
PeripheralOp_blocking(op, peripheral, data) ==
    /\ lastCall = NoCall
    /\ HostHolds(peripheral)
    /\ LET v == op_validate(op, peripheral, data) IN
       IF v = "null handle"
       THEN /\ lastCall' = CallA(op, peripheral, 0, <<data>>, INVALID_ARGUMENT, "")
            /\ UNCHANGED <<perr, tasks>>
       ELSE IF v # "accepted"
       THEN \* set_peripheral_error_str(&peripheral, v)
            /\ perr' = [perr EXCEPT ![peripheral] = v]
            /\ lastCall' = CallA(op, peripheral, 0, <<data>>, INVALID_ARGUMENT, "")
            /\ UNCHANGED tasks
       ELSE \* ap = (*peripheral).p.clone(); runtime.spawn(async move { ... })
            /\ FreeTask # 0
            /\ tasks' = [tasks EXCEPT ![FreeTask] =
                             [NoTask EXCEPT !.state = "done", !.op = op, !.h = peripheral,
                                            !.cb = <<SUCCESS>>]]
            /\ lastCall' = CallA(op, peripheral, FreeTask, <<data>>, SUCCESS, "")
            /\ UNCHANGED perr
    /\ UNCHANGED <<modHandle, mi, scan, handles, disp, events>>

\* one of the eight entry points, up to its return; the call
\* record keeps the data pointer it was given
PeripheralOp(op, peripheral, data) ==
    /\ lastCall = NoCall
    /\ HostHolds(peripheral)
    /\ LET v == op_validate(op, peripheral, data) IN
       IF v = "null handle"
       THEN /\ lastCall' = CallA(op, peripheral, 0, <<data>>, INVALID_ARGUMENT, "")
            /\ UNCHANGED <<perr, tasks>>
       ELSE IF v # "accepted"
       THEN \* set_peripheral_error_str(&peripheral, v)
            /\ perr' = [perr EXCEPT ![peripheral] = v]
            /\ lastCall' = CallA(op, peripheral, 0, <<data>>, INVALID_ARGUMENT, "")
            /\ UNCHANGED tasks
       ELSE \* ap = (*peripheral).p.clone(); runtime.spawn(async move { ... })
            /\ FreeTask # 0
            /\ tasks' = [tasks EXCEPT ![FreeTask] =
                             [NoTask EXCEPT !.state = "pending", !.op = op, !.h = peripheral,
                                            !.given = WriteBytes(op), !.buf = WriteBytes(op)]]
            /\ lastCall' = CallA(op, peripheral, FreeTask, <<data>>, SUCCESS, "")
            /\ UNCHANGED perr
    /\ UNCHANGED <<modHandle, mi, scan, handles, disp, events>>

(* ---- the spawned task of an operation, e.g. lib.rs 531-543 ---- *)
\* the host reuses or releases the buffer it passed to a peripheral_write that has
\* returned
HostReusesBuffer(t, content) ==
    /\ lastCall = NoCall
    /\ tasks[t].op = "peripheral_write"
    /\ tasks[t].buf = Payload
    /\ tasks' = [tasks EXCEPT ![t].buf = content]
    /\ UNCHANGED <<modHandle, mi, scan, handles, perr, disp, events, lastCall>>

\* variant: the task owns a copy of the payload made before the entry point returned
slice_read_copied(t) == {tasks[t].given}

\* data_arr = from_raw_parts(data, data_length) is a view of the caller's memory, read
\* by peripheral.write while the task runs: it yields what that memory holds then, and
\* anything at all once the memory was released
slice_read(t) ==
    IF tasks[t].op # "peripheral_write" THEN {Released}
    ELSE IF tasks[t].buf = Released THEN {Payload, Scribble}
    ELSE {tasks[t].buf}

\* the awaited operation returned Ok: the callback is called with SUCCESS
TaskOk(t) ==
    /\ lastCall = NoCall
    /\ tasks[t].state = "pending"
    /\ \E bytes \in slice_read(t) :
          tasks' = [tasks EXCEPT ![t].cb = Append(@, SUCCESS),
                                 ![t].sent = bytes,
                                 ![t].state = IF tasks[t].op = "peripheral_register_notification_events"
                                              THEN "streaming" ELSE "done"]
    \* the task is over: ap is dropped
    /\ handles' = Reap(handles, tasks')
    /\ UNCHANGED <<modHandle, mi, scan, perr, disp, events, lastCall>>

\* mutant: the failure is passed on to the callback without being recorded
TaskErr_unrecorded(t, e) ==
    /\ lastCall = NoCall
    /\ tasks[t].state = "pending"
    /\ tasks' = [tasks EXCEPT ![t].state = "recorded", ![t].res = e, ![t].wrote = TRUE]
    /\ UNCHANGED <<modHandle, mi, scan, handles, perr, disp, events, lastCall>>

\* the awaited operation returned Err(e): *ap.last_error.lock().await = error_into_cstring(&e)
TaskErr(t, e) ==
    /\ lastCall = NoCall
    /\ tasks[t].state = "pending"
    /\ perr' = [perr EXCEPT ![tasks[t].h] = error_into_cstring(e)]
    /\ tasks' = [tasks EXCEPT ![t].state = "recorded", ![t].res = e, ![t].wrote = TRUE]
    /\ UNCHANGED <<modHandle, mi, scan, handles, disp, events, lastCall>>

\* completed_callback(error_to_result(&e))
TaskCallback(t) ==
    /\ lastCall = NoCall
    /\ tasks[t].state = "recorded"
    /\ tasks' = [tasks EXCEPT ![t].cb = Append(@, error_to_result(tasks[t].res)),
                              ![t].state = "done"]
    \* the task is over: ap is dropped
    /\ handles' = Reap(handles, tasks')
    /\ UNCHANGED <<modHandle, mi, scan, perr, disp, events, lastCall>>

\* completed_callback(error_to_result(&e)) where the host's callback, told of the
\* failure, asks for its text: peripheral_get_last_error(peripheral) on the worker
\* thread that runs the task.  When the lock is acquired the callback returns as in
\* TaskCallback; on a panic the callback never returns: the process is gone, or the
\* task is
peripheral_get_last_error_in_callback(t, outcome) ==
    /\ lastCall = NoCall
    /\ tasks[t].state = "recorded"
    /\ handles[tasks[t].h].state = "caller"
    /\ IF blocking_lock("worker") = "acquired"
       THEN /\ outcome = "unwind"
            /\ tasks' = [tasks EXCEPT ![t].cb = Append(@, error_to_result(tasks[t].res)),
                                      ![t].read = perr[tasks[t].h],
                                      ![t].state = "done"]
            /\ UNCHANGED lastCall
       ELSE /\ tasks' = [tasks EXCEPT ![t].cb = Append(@, error_to_result(tasks[t].res)),
                                      ![t].state = "panicked"]
            /\ lastCall' = IF outcome = "abort"
                           THEN Call("peripheral_get_last_error", tasks[t].h, t, ERROR_FAIL, "abort")
                           ELSE lastCall
    \* the task is over: ap is dropped
    /\ handles' = Reap(handles, tasks')
    /\ UNCHANGED <<modHandle, mi, scan, perr, disp, events>>

\* the values a notification carries (uuid and payload together)
NoteItems == {1, 2}

\* the peripheral sends a notification: the stream of task t will yield it
NotifyArrive(t, item) ==
    /\ lastCall = NoCall
    /\ tasks[t].state = "streaming"
    /\ Len(tasks[t].notes) < MaxNotes
    /\ tasks' = [tasks EXCEPT ![t].notes = Append(@, item)]
    /\ UNCHANGED <<modHandle, mi, scan, handles, perr, disp, events, lastCall>>

\* mutant: the task leaves the loop after the first item
TaskNotify_once(t) ==
    /\ lastCall = NoCall
    /\ tasks[t].state = "streaming"
    /\ tasks[t].npos < Len(tasks[t].notes)
    /\ tasks' = [tasks EXCEPT ![t].npos = @ + 1,
                              ![t].data = Append(@, tasks[t].notes[tasks[t].npos + 1]),
                              ![t].state = "done"]
    \* the task is over: ap is dropped
    /\ handles' = Reap(handles, tasks')
    /\ UNCHANGED <<modHandle, mi, scan, perr, disp, events, lastCall>>

\* n.next().await yields Some(data): notify_callback(data.uuid, data.value...), and
\* the loop goes back to n.next().await
TaskNotify(t) ==
    /\ lastCall = NoCall
    /\ tasks[t].state = "streaming"
    /\ tasks[t].npos < Len(tasks[t].notes)
    /\ tasks' = [tasks EXCEPT ![t].npos = @ + 1,
                              ![t].data = Append(@, tasks[t].notes[tasks[t].npos + 1])]
    /\ UNCHANGED <<modHandle, mi, scan, handles, perr, disp, events, lastCall>>

\* n.next().await yields None, after every item of the stream: the notification loop ends
TaskStreamEnd(t) ==
    /\ lastCall = NoCall
    /\ tasks[t].state = "streaming"
    /\ tasks[t].npos = Len(tasks[t].notes)
    /\ tasks' = [tasks EXCEPT ![t].state = "done"]
    \* the task is over: ap is dropped
    /\ handles' = Reap(handles, tasks')
    /\ UNCHANGED <<modHandle, mi, scan, perr, disp, events, lastCall>>

(* ---- peripheral_get_id, lib.rs 437-450 ---- *)
peripheral_get_id(peripheral) ==
    /\ lastCall = NoCall
    /\ HostHolds(peripheral)
    /\ lastCall' = IF handle_is_null(peripheral)
                   THEN Call("peripheral_get_id", peripheral, 0, INVALID_ARGUMENT, "null")
                   ELSE Call("peripheral_get_id", peripheral, handles[peripheral].id, SUCCESS, "id")
    /\ UNCHANGED <<modHandle, mi, scan, handles, perr, tasks, disp, events>>

(* ---- peripheral_get_address, lib.rs 453-465 ---- *)
peripheral_get_address(peripheral) ==
    /\ lastCall = NoCall
    /\ HostHolds(peripheral)
    /\ lastCall' = IF handle_is_null(peripheral)
                   THEN Call("peripheral_get_address", peripheral, 0, INVALID_ARGUMENT, "")
                   ELSE Call("peripheral_get_address", peripheral, 0, SUCCESS, "address")
    /\ UNCHANGED <<modHandle, mi, scan, handles, perr, tasks, disp, events>>

(* ---- peripheral_get_services, lib.rs 628-683 ---- *)
\* an i32 or u32 in memory, native (little-endian) byte order
le32(n) == <<n % 256, (n \div 256) % 256, (n \div 65536) % 256, (n \div 16777216) % 256>>

\* the 16 bytes of a Uuid; the model's UUID number u is its first byte
uuid_bytes(u) == [i \in 1..16 |-> IF i = 1 THEN u ELSE i]

RECURSIVE Flatten(_)
\* buffer.extend(...) once per element
Flatten(chunks) == IF chunks = <<>> THEN <<>> ELSE Head(chunks) \o Flatten(Tail(chunks))

\* mutant: the property flags are not written
CharacteristicDescriptor_bytes_noflags(c, pad) ==
    uuid_bytes(c.uuid) \o <<0, pad, pad, pad>> \o le32(Len(c.descriptors))

\* any_as_u8_slice(&cd), #[repr(C)] CharacteristicDescriptor: uuid at 0, properties at
\* 16, three bytes of padding (never initialised: pad), descriptor_count at 20
CharacteristicDescriptor_bytes(c, pad) ==
    uuid_bytes(c.uuid) \o <<c.properties, pad, pad, pad>> \o le32(Len(c.descriptors))

\* for c in s.characteristics { cd; for d in c.descriptors { d.uuid } }
characteristic_bytes(c, pad) ==
    CharacteristicDescriptor_bytes(c, pad)
    \o Flatten([i \in 1..Len(c.descriptors) |-> uuid_bytes(c.descriptors[i])])

\* any_as_u8_slice(&sd), #[repr(C)] ServiceDescriptor: uuid at 0, characteristic_count
\* at 16; then the characteristics
service_bytes(sv, pad) ==
    uuid_bytes(sv.uuid) \o le32(Len(sv.characteristics))
    \o Flatten([i \in 1..Len(sv.characteristics) |-> characteristic_bytes(sv.characteristics[i], pad)])

\* the buffer handed to the caller: eight bytes reserved, ServiceDescriptors, the
\* services; then size and capacity are written over the first eight bytes.  slack is
\* what the Vec had reserved beyond its length
services_buffer(tree, pad, slack) ==
    LET body == le32(Len(tree)) \o Flatten([i \in 1..Len(tree) |-> service_bytes(tree[i], pad)])
        size == 8 + Len(body)
        cap == size + slack
    IN le32(size) \o le32(cap) \o body

peripheral_get_services(peripheral, pad, slack) ==
    /\ lastCall = NoCall
    /\ HostHolds(peripheral)
    /\ lastCall' = IF handle_is_null(peripheral)
                   THEN Call("peripheral_get_services", peripheral, 0, INVALID_ARGUMENT, "")
                   ELSE CallA("peripheral_get_services", peripheral, 0,
                              services_buffer(handles[peripheral].tree, pad, slack), SUCCESS, "buffer")
    /\ UNCHANGED <<modHandle, mi, scan, handles, perr, tasks, disp, events>>

(* ---- peripheral_get_last_error, lib.rs 915-921 ---- *)
peripheral_get_last_error(peripheral) ==
    /\ lastCall = NoCall
    /\ HostHolds(peripheral)
    /\ (peripheral # NULL => blocking_lock("host") = "acquired")
    /\ lastCall' = IF peripheral = NULL
                   THEN Call("peripheral_get_last_error", peripheral, 0, SUCCESS, "null")
                   ELSE Call("peripheral_get_last_error", peripheral, 0, SUCCESS, perr[peripheral])
    /\ UNCHANGED <<modHandle, mi, scan, handles, perr, tasks, disp, events>>

(* ---- free_peripheral, lib.rs 923-939 ---- *)
free_peripheral(peripheral) ==
    /\ lastCall = NoCall
    /\ HostHolds(peripheral)
    /\ lastCall' = Call("free_peripheral", peripheral, 0, SUCCESS, "")
    /\ IF peripheral = NULL
       THEN UNCHANGED <<modHandle, mi, handles, tasks, disp>>
       ELSE DropRefs(modHandle, [handles EXCEPT ![peripheral].state = "freed"], disp)
    /\ UNCHANGED <<scan, perr, events>>

\* the host thread is back from the entry point and has looked at what it returned
HostReturn ==
    /\ lastCall # NoCall
    /\ lastCall.out # "abort"
    /\ lastCall' = NoCall
    /\ UNCHANGED <<modHandle, mi, scan, handles, perr, tasks, disp, events>>

(* ---- the specifications ---- *)
\* the filter counts the host tries, and the arrays of UUIDs it passes
ScanCounts == {I32Min, -1, 0, 1, 2, MaxFilters, MaxFilters + 1, I32Max}
UuidArray(pattern, len) ==
    [i \in 1..len |-> IF pattern = 1 THEN i ELSE 2 * MaxFilters - i]
\* null, an array of exactly count UUIDs, and a longer one
ScanArrays(count) ==
    {NullPtr} \cup {ArrayPtr(UuidArray(p, IF count >= 1 /\ count <= MaxFilters
                                          THEN count + p - 1 ELSE 2)) : p \in {1, 2}}

\* the whole interface, every input
Next ==
    \/ \E rt_ok \in BOOLEAN, res \in {Ok} \cup InitFailures : create_module(rt_ok, res)
    \/ \E m \in {NULL, MOD} : get_last_module_error(m)
    \/ \E m \in {NULL, MOD} : set_event_callbacks(m)
    \/ \E m \in {NULL, MOD}, n \in ScanCounts, res \in {Ok} \cup OpFailures :
          \E arr \in ScanArrays(n) : start_scan_peripherals(m, arr, n, res)
    \/ \E m \in {NULL, MOD}, res \in {Ok} \cup OpFailures : stop_scan_peripherals(m, res)
    \/ \E m \in {NULL, MOD} : free_module(m)
    \/ HostReturn
    \/ \E ev \in AdapterEvents : EmitEvent(ev)
    \/ \E d \in Disps, ok \in BOOLEAN : DispSubscribe(d, ok)
    \/ \E d \in Disps : DispPoll(d)
    \/ \E d \in Disps : DispStreamEnd(d)
    \/ \E d \in Disps : DispHandle(d)
    \/ \E d \in Disps, res \in {Ok} \cup OpFailures, r \in FoundReturns : DispResolved(d, res, r)
    \/ \E op \in Ops, h \in {NULL} \cup Handles, data \in {NULL, BUF} : PeripheralOp(op, h, data)
    \/ \E t \in Tasks, c \in {Scribble, Released} : HostReusesBuffer(t, c)
    \/ \E t \in Tasks : TaskOk(t)
    \/ \E t \in Tasks, e \in OpFailures : TaskErr(t, e)
    \/ \E t \in Tasks : TaskCallback(t)
    \/ \E t \in Tasks, item \in NoteItems : NotifyArrive(t, item)
    \/ \E t \in Tasks : TaskNotify(t)
    \/ \E t \in Tasks : TaskStreamEnd(t)
    \/ \E h \in {NULL} \cup Handles : peripheral_get_id(h)
    \/ \E h \in {NULL} \cup Handles : peripheral_get_address(h)
    \/ \E h \in {NULL} \cup Handles : peripheral_get_last_error(h)
    \/ \E h \in {NULL} \cup Handles : peripheral_get_services(h, 0, 0)
    \/ \E h \in {NULL} \cup Handles : free_peripheral(h)

Spec == Init /\ [][Next]_vars

\* the synchronous entry points and their validation: the host creates a Module of any
\* shape and calls into it, and calls the per-peripheral entry points with null
NextCalls ==
    \/ \E rt_ok \in BOOLEAN, res \in {Ok} \cup InitFailures : create_module(rt_ok, res)
    \/ \E m \in {NULL, MOD} : get_last_module_error(m)
    \/ \E m \in {NULL, MOD} : set_event_callbacks(m)
    \/ \E m \in {NULL, MOD}, n \in ScanCounts, res \in {Ok} \cup OpFailures :
          \E arr \in ScanArrays(n) : start_scan_peripherals(m, arr, n, res)
    \/ \E m \in {NULL, MOD}, res \in {Ok} \cup OpFailures : stop_scan_peripherals(m, res)
    \/ \E m \in {NULL, MOD} : free_module(m)
    \/ \E op \in Ops, data \in {NULL, BUF} : PeripheralOp(op, NULL, data)
    \/ peripheral_get_id(NULL)
    \/ peripheral_get_address(NULL)
    \/ peripheral_get_last_error(NULL)
    \/ free_peripheral(NULL)
    \/ HostReturn

SpecCalls == Init /\ [][NextCalls]_vars

\* the event dispatchers of a working Module, the handles they hand out and the
\* release of the handles.  The adapter discovers device 1, sees advertisements of
\* device 2, loses either and updates device 1; the found callback rejects (0) or
\* takes (-1) what it is shown
EventsShown ==
    {Event("DeviceDiscovered", 1, <<>>), Event("DeviceDisconnected", 1, <<>>),
     Event("DeviceDisconnected", 2, <<>>), Event("DeviceUpdated", 1, <<>>)}
    \cup {Event("ServicesAdvertisement", 2, sv) : sv \in AdvServices}

\* the dispatchers of a host that registers MaxRegs times
Regs == 1..MaxRegs

NextDispatcher ==
    \/ create_module(TRUE, Ok)
    \/ ((\E d \in Regs : disp[d].pc = "unused") /\ set_event_callbacks(MOD))
    \/ free_module(MOD)
    \/ \E h \in Handles : free_peripheral(h)
    \/ HostReturn
    \/ \E ev \in EventsShown : EmitEvent(ev)
    \/ \E d \in Regs, ok \in BOOLEAN : DispSubscribe(d, ok)
    \/ \E d \in Regs : DispPoll(d)
    \/ \E d \in Regs : DispStreamEnd(d)
    \/ \E d \in Regs : DispHandle(d)
    \/ \E d \in Regs, res \in {Ok, Err("Other", TRUE)}, r \in {0, -1} :
          DispResolved(d, res, r)

SpecDispatcher == Init /\ [][NextDispatcher]_vars

\* the operations on the handles of a working Module whose host registered its
\* callbacks once, is shown discoveries of one device and keeps every handle it is
\* shown.  The host tries the three
\* shapes of operation: connect (as is_connected, disconnect, discover_services,
\* subscribe and unsubscribe), write with its data pointer, and the notification stream
OpsTried == {"peripheral_connect", "peripheral_write", "peripheral_register_notification_events"}

NextOps ==
    \/ create_module(TRUE, Ok)
    \/ (disp[1].pc = "unused" /\ set_event_callbacks(MOD))
    \/ free_module(MOD)
    \/ HostReturn
    \/ EmitEvent(Event("DeviceDiscovered", 1, <<>>))
    \/ DispSubscribe(1, TRUE)
    \/ DispPoll(1)
    \/ DispHandle(1)
    \/ DispResolved(1, Ok, 1)
    \/ \E op \in OpsTried, h \in Handles, data \in {NULL, BUF} :
          \* only peripheral_write has a data parameter
          /\ (op = "peripheral_write" \/ data = NULL)
          /\ PeripheralOp(op, h, data)
    \/ \E t \in Tasks : TaskOk(t)
    \/ \E t \in Tasks, e \in OpFailures : TaskErr(t, e)
    \/ \E t \in Tasks : TaskCallback(t)
    \/ \E t \in Tasks : TaskStreamEnd(t)
    \/ \E h \in Handles : free_peripheral(h)

SpecOps == Init /\ [][NextOps]_vars

\* the notification stream: the host keeps the handle of the one device it is shown
\* and registers for its notifications; the peripheral sends notifications; the host
\* releases its handles when it likes
NextNotify ==
    \/ create_module(TRUE, Ok)
    \/ (disp[1].pc = "unused" /\ set_event_callbacks(MOD))
    \/ free_module(MOD)
    \/ HostReturn
    \/ EmitEvent(Event("DeviceDiscovered", 1, <<>>))
    \/ DispSubscribe(1, TRUE)
    \/ DispPoll(1)
    \/ DispHandle(1)
    \/ DispResolved(1, Ok, 1)
    \/ \E h \in Handles : PeripheralOp("peripheral_register_notification_events", h, NULL)
    \/ \E t \in Tasks : TaskOk(t)
    \/ \E t \in Tasks, e \in OpFailures : TaskErr(t, e)
    \/ \E t \in Tasks : TaskCallback(t)
    \/ \E t \in Tasks, item \in NoteItems : NotifyArrive(t, item)
    \/ \E t \in Tasks : TaskNotify(t)
    \/ \E t \in Tasks : TaskStreamEnd(t)
    \/ \E h \in Handles : free_peripheral(h)

SpecNotify == Init /\ [][NextNotify]_vars

\* the payload of a write: the host keeps the handle of the one device it is shown,
\* writes to it, and reuses or releases its buffer once peripheral_write has returned
NextWrite ==
    \/ create_module(TRUE, Ok)
    \/ (disp[1].pc = "unused" /\ set_event_callbacks(MOD))
    \/ HostReturn
    \/ EmitEvent(Event("DeviceDiscovered", 1, <<>>))
    \/ DispSubscribe(1, TRUE)
    \/ DispPoll(1)
    \/ DispHandle(1)
    \/ DispResolved(1, Ok, 1)
    \/ \E h \in Handles, data \in {NULL, BUF} : PeripheralOp("peripheral_write", h, data)
    \/ \E t \in Tasks, c \in {Scribble, Released} : HostReusesBuffer(t, c)
    \/ \E t \in Tasks : TaskOk(t)
    \/ \E t \in Tasks, e \in OpFailures : TaskErr(t, e)
    \/ \E t \in Tasks : TaskCallback(t)
    \/ \E h \in Handles : peripheral_get_last_error(h)

SpecWrite == Init /\ [][NextWrite]_vars

\* the life of one dispatcher: the adapter discovers device 1 and loses device 1 or
\* the unknown device 2, lookups succeed or fail, the found callback rejects or takes
\* the handle, the host releases what it holds, the stream may end.  The dispatcher
\* runs on a worker thread of its own and the host thread returns from its calls
NextLoop ==
    \/ create_module(TRUE, Ok)
    \/ (disp[1].pc = "unused" /\ set_event_callbacks(MOD))
    \/ free_module(MOD)
    \/ \E h \in Handles : free_peripheral(h)
    \/ HostReturn
    \/ \E ev \in {Event("DeviceDiscovered", 1, <<>>), Event("DeviceDisconnected", 1, <<>>),
                  Event("DeviceDisconnected", 2, <<>>)} : EmitEvent(ev)
    \/ DispSubscribe(1, TRUE)
    \/ DispPoll(1)
    \/ DispStreamEnd(1)
    \/ DispHandle(1)
    \/ \E res \in {Ok, Err("Other", TRUE)}, r \in {0, -1} : DispResolved(1, res, r)

SpecLoop ==
    /\ Init /\ [][NextLoop]_vars
    /\ WF_vars(HostReturn)
    /\ WF_vars(DispHandle(1))

\* a host that registers its callbacks more than once on one Module: every
\* registration's task, the events of device 1 and what the found callback returns
NextRegistrations ==
    \/ create_module(TRUE, Ok)
    \/ set_event_callbacks(MOD)
    \/ HostReturn
    \/ \E ev \in {Event("DeviceDiscovered", 1, <<>>), Event("DeviceDisconnected", 1, <<>>)} :
          EmitEvent(ev)
    \/ \E d \in Disps : DispSubscribe(d, TRUE)
    \/ \E d \in Disps : DispPoll(d)
    \/ \E d \in Disps : DispHandle(d)
    \/ \E d \in Disps, r \in {0, -1} : DispResolved(d, Ok, r)

SpecRegistrations == Init /\ [][NextRegistrations]_vars

\* a host that releases the Module first and uses the handles it was given afterwards:
\* every operation is submitted after free_module
NextAfterFree ==
    \/ create_module(TRUE, Ok)
    \/ (disp[1].pc = "unused" /\ set_event_callbacks(MOD))
    \/ free_module(MOD)
    \/ HostReturn
    \/ EmitEvent(Event("DeviceDiscovered", 1, <<>>))
    \/ DispSubscribe(1, TRUE)
    \/ DispPoll(1)
    \/ DispHandle(1)
    \/ DispResolved(1, Ok, 1)
    \/ \E h \in Handles : (modHandle = "freed" /\ PeripheralOp("peripheral_connect", h, NULL))
    \/ \E t \in Tasks : TaskOk(t)
    \/ \E t \in Tasks, e \in OpFailures : TaskErr(t, e)
    \/ \E t \in Tasks : TaskCallback(t)
    \/ \E h \in Handles : free_peripheral(h)

SpecAfterFree == Init /\ [][NextAfterFree]_vars

\* a host whose completion callback asks for the error text of a failed operation,
\* and which also asks for it from its own thread
NextReenter ==
    \/ create_module(TRUE, Ok)
    \/ (disp[1].pc = "unused" /\ set_event_callbacks(MOD))
    \/ HostReturn
    \/ EmitEvent(Event("DeviceDiscovered", 1, <<>>))
    \/ DispSubscribe(1, TRUE)
    \/ DispPoll(1)
    \/ DispHandle(1)
    \/ DispResolved(1, Ok, 1)
    \/ \E h \in Handles : PeripheralOp("peripheral_connect", h, NULL)
    \/ \E t \in Tasks : TaskOk(t)
    \/ \E t \in Tasks, e \in OpFailures : TaskErr(t, e)
    \/ \E t \in Tasks, o \in PanicOutcomes : peripheral_get_last_error_in_callback(t, o)
    \/ \E h \in Handles : peripheral_get_last_error(h)
    \/ get_last_module_error(MOD)
    \/ \E h \in Handles : free_peripheral(h)

SpecReenter == Init /\ [][NextReenter]_vars

\* get_long_addr on its own: the byte values tried in each of the six positions
AddrBytes == {0, 1, 128, 255}
InitAddr ==
    /\ modHandle = "none"
    /\ mi = [runtime |-> FALSE, adapter |-> FALSE, last_error |-> "", alive |-> FALSE]
    /\ scan = NoScan
    /\ handles = [h \in Handles |-> NoHandle]
    /\ perr = [h \in Handles |-> ""]
    /\ tasks = [t \in Tasks |-> NoTask]
    /\ disp = [d \in Disps |-> NoDisp]
    /\ events = <<>>
    /\ \E a \in [1..6 -> AddrBytes] :
          lastCall = CallA("get_long_addr", NULL, 0, a, SUCCESS, "argument")

\* the call record of get_long_addr(a) after the call: a, followed by the result
LongAddrCall ==
    /\ lastCall.fn = "get_long_addr"
    /\ lastCall.out = "argument"
    /\ lastCall' = [lastCall EXCEPT !.arg = @ \o get_long_addr(@), !.out = "result"]
    /\ UNCHANGED <<modHandle, mi, scan, handles, perr, tasks, disp, events>>

NextAddr == LongAddrCall

SpecAddr == InitAddr /\ [][NextAddr]_vars

\* peripheral_get_services on the kept handle of a device whose services were
\* discovered.  The lists of characteristics a service may have: none, one, two, with
\* no, one and two descriptors and several property masks
Char(uuid, properties, descriptors) ==
    [uuid |-> uuid, properties |-> properties, descriptors |-> descriptors]
CharLists ==
    {<<>>,
     <<Char(1, 0, <<>>)>>,
     <<Char(1, 2, <<1>>)>>,
     <<Char(1, 255, <<1, 2>>)>>,
     <<Char(1, 0, <<>>), Char(2, 18, <<>>)>>,
     <<Char(1, 2, <<1>>), Char(2, 0, <<>>)>>,
     <<Char(1, 0, <<>>), Char(2, 8, <<1, 2>>)>>,
     <<Char(1, 16, <<2>>), Char(2, 4, <<1>>)>>}
\* the trees: up to MaxServices services, in the order of their UUIDs
ServiceTrees ==
    UNION {{[i \in 1..n |-> [uuid |-> i, characteristics |-> cl[i]]] : cl \in [1..n -> CharLists]}
           : n \in 0..MaxServices}
PadBytes == {0, 170}
VecSlack == {0, 7}

InitServices ==
    /\ modHandle = "live"
    /\ mi = [runtime |-> TRUE, adapter |-> TRUE, last_error |-> "", alive |-> TRUE]
    /\ scan = NoScan
    /\ events = <<Event("DeviceDiscovered", 1, <<>>)>>
    /\ \E tree \in ServiceTrees :
          handles = [h \in Handles |->
                        IF h = 1
                        THEN [NoHandle EXCEPT !.state = "caller", !.palive = TRUE, !.id = 1,
                                              !.addr = get_long_addr(BDAddrOf(1)),
                                              !.by = 1, !.pos = 1, !.ret = 1, !.tree = tree]
                        ELSE NoHandle]
    /\ perr = [h \in Handles |-> ""]
    /\ tasks = [t \in Tasks |-> NoTask]
    /\ disp = [d \in Disps |->
                  IF d = 1
                  THEN [NoDisp EXCEPT !.pc = "listening", !.pos = 1,
                                      !.map[1] = get_long_addr(BDAddrOf(1))]
                  ELSE NoDisp]
    /\ lastCall = NoCall

NextServices ==
    \/ \E h \in {NULL, 1}, pad \in PadBytes, slack \in VecSlack : peripheral_get_services(h, pad, slack)
    \/ HostReturn

SpecServices == InitServices /\ [][NextServices]_vars

\* every error of the underlying stack, with and without a NUL in its text
AllErrors == {Err(v, nul) : v \in ErrorVariants, nul \in BOOLEAN}

\* the Error Mapper at work: adapter acquisition and the scan calls fail with any of the
\* stack's errors, and the host reads the status and the recorded message
NextMapper ==
    \/ \E res \in {Ok} \cup AllErrors : create_module(TRUE, res)
    \/ \E res \in {Ok} \cup AllErrors : start_scan_peripherals(MOD, NullPtr, 0, res)
    \/ \E res \in {Ok} \cup AllErrors : stop_scan_peripherals(MOD, res)
    \/ get_last_module_error(MOD)
    \/ HostReturn

SpecMapper == Init /\ [][NextMapper]_vars

(***************************************************************************)
(* The claims                                                              *)
(***************************************************************************)
\* a task that will not run again: it finished, or it was dropped with the Runtime
Ended(t) == tasks[t].state \in {"done", "cancelled"}
Accepted(t) == tasks[t].state # "unused"
MappedCodes == {ERROR_FAIL} \cup (ERROR_PERMISSION_DENIED..ERROR_RUNTIME_ERROR)

\* C1 (as claimed): an accepted operation that has ended had its completion callback
\* invoked exactly once, with SUCCESS or a mapped failure code, and no accepted
\* operation ever has two invocations.
C1_ExactlyOnce ==
    \A t \in Tasks :
        /\ Len(tasks[t].cb) <= 1
        /\ \A i \in 1..Len(tasks[t].cb) : tasks[t].cb[i] \in {SUCCESS} \cup MappedCodes
        /\ (Accepted(t) /\ Ended(t)) => Len(tasks[t].cb) = 1

\* C2 (as claimed): a free_peripheral step on a handle with an operation in flight
\* leaves that operation in flight, whatever else has been released.
C2_FreeDoesNotCancel ==
    [][\A t \in Tasks :
          (/\ tasks[t].state = "pending"
           /\ handles[tasks[t].h].state = "caller"
           /\ handles'[tasks[t].h].state = "freed")
          => tasks'[t].state = "pending"]_vars


\* C3 (as claimed): once free_module was called on the Module, no step invokes the
\* found callback or the disconnected callback.
C3_NoCallbackAfterFree ==
    [][modHandle = "freed" =>
          /\ \A d \in Disps : disp'[d].dlog = disp[d].dlog
          /\ \A h \in Handles : handles[h].state = "unalloc" => handles'[h].state = "unalloc"]_vars

\* C4: a per-peripheral entry point called with a null handle returns INVALID_ARGUMENT,
\* no task exists afterwards and no callback was invoked.
NullChecked == Ops \cup {"peripheral_get_id", "peripheral_get_address"}
ValidatingCalls == {"set_event_callbacks", "start_scan_peripherals", "stop_scan_peripherals"}
DegradedCall ==
    /\ lastCall = NoCall
    /\ lastCall'.fn \in ValidatingCalls
    /\ lastCall'.h = MOD
    /\ (~mi.runtime \/ ~mi.adapter)

\* C5 (as claimed): such a call returns INVALID_ARGUMENT and changes nothing, the
\* last-error slot included.
C5_NoSideEffect ==
    [][DegradedCall =>
          /\ lastCall'.ret = INVALID_ARGUMENT
          /\ UNCHANGED <<modHandle, mi, scan, handles, perr, tasks, disp, events>>]_vars

\* C5 (amended): such a call returns INVALID_ARGUMENT, schedules no task, starts and
\* stops no scan and invokes no callback; of the Module only the last-error slot
\* changes, to "Invalid module".
C5_OnlyErrorSlot ==
    [][DegradedCall =>
          /\ lastCall'.ret = INVALID_ARGUMENT
          /\ mi' = [mi EXCEPT !.last_error = "Invalid module"]
          /\ UNCHANGED <<modHandle, scan, handles, perr, tasks, disp, events>>]_vars

C5_Witness ==
    /\ lastCall.fn = "start_scan_peripherals"
    /\ lastCall.h = MOD
    /\ lastCall.ret = INVALID_ARGUMENT
    /\ mi.runtime /\ ~mi.adapter
    /\ mi.last_error = "Invalid module"

\* C6: create_module always hands out a handle; it returns SUCCESS exactly when runtime
\* and adapter are both present; after a failed adapter acquisition the runtime is
\* present, the adapter absent and the status and the recorded message are those of
\* the error; after a failed runtime start neither is present and the status is
\* ERROR_FAIL; get_last_module_error returns the recorded message.
C6_CreateModule ==
    /\ lastCall.fn = "create_module" =>
          /\ lastCall.out = "handle" /\ modHandle = "live" /\ mi.alive
          /\ lastCall.ret = SUCCESS <=> (mi.runtime /\ mi.adapter)
          /\ lastCall.ret # SUCCESS =>
                \/ /\ mi.runtime /\ ~mi.adapter
                   /\ \E e \in InitFailures : /\ lastCall.ret = error_to_result(e)
                                              /\ mi.last_error = error_into_cstring(e)
                \/ /\ ~mi.runtime /\ ~mi.adapter
                   /\ lastCall.ret = ERROR_FAIL
                   /\ mi.last_error = RuntimeStartError
    /\ (lastCall.fn = "get_last_module_error" /\ lastCall.h = MOD) =>
          lastCall.out = mi.last_error

C6_Witness ==
    /\ lastCall.fn = "get_last_module_error"
    /\ lastCall.h = MOD
    /\ mi.runtime /\ ~mi.adapter
    /\ lastCall.out = "PermissionDenied"

\* the steps in which the host calls start_scan_peripherals on a valid Module
ScanCall ==
    /\ lastCall = NoCall
    /\ lastCall'.fn = "start_scan_peripherals"
    /\ lastCall'.h = MOD
    /\ mi.runtime /\ mi.adapter
\* the adapter's start_scan was called once, with this filter; SUCCESS is returned
\* when it started the scan, the error's code when it did not
Started(filter) ==
    /\ scan'.starts = scan.starts + 1
    /\ scan'.filter = filter
    /\ lastCall'.ret = SUCCESS => scan'.active
    /\ lastCall'.ret # SUCCESS => (scan'.active = scan.active /\ lastCall'.ret \in MappedCodes)

\* C7: with count 0 the adapter's scan is started with no filter; with count n in
\* 1..100 and an array of UUIDs it is started with the first n UUIDs of the array, in
\* order; either returns SUCCESS exactly when the scan started; with a count above 100
\* or below 0 a failure code is returned and the adapter is not called.
C7_FilterBounds ==
    [][ScanCall =>
          LET n == lastCall'.n IN
          /\ n = 0 => Started(<<>>)
          /\ (n >= 1 /\ n <= MaxFilters /\ lastCall'.out = "array") =>
                /\ Started(SubSeq(lastCall'.arg, 1, n))
                /\ Len(scan'.filter) = n
          /\ (n > MaxFilters \/ n < 0) =>
                /\ lastCall'.ret \notin {SUCCESS}
                /\ scan' = scan]_vars

C7_Witness ==
    /\ lastCall.fn = "start_scan_peripherals"
    /\ lastCall.n = MaxFilters
    /\ Len(lastCall.arg) = MaxFilters + 1
    /\ lastCall.ret = SUCCESS
    /\ scan.active
    /\ Len(scan.filter) = MaxFilters
    /\ scan.filter[MaxFilters] = MaxFilters

\* C8: the step in which a task learns of the failure e sets the peripheral's error
\* slot to the text of e and calls nothing; the callback is called in a later step,
\* with the mapper's code for e and without touching the slot; a task whose operation
\* succeeded calls the callback with SUCCESS and never writes the slot.
C8_ErrorThenCallback ==
    [][\A t \in Tasks :
          /\ (tasks[t].state = "pending" /\ tasks'[t].state = "recorded") =>
                /\ perr'[tasks[t].h] = error_into_cstring(tasks'[t].res)
                /\ tasks'[t].res \in OpFailures
                /\ tasks'[t].cb = <<>>
          /\ (Len(tasks'[t].cb) > Len(tasks[t].cb)) =>
                /\ perr' = perr
                /\ IF tasks[t].res # Ok
                   THEN /\ tasks[t].state = "recorded"
                        /\ tasks'[t].cb = <<error_to_result(tasks[t].res)>>
                   ELSE /\ tasks[t].state = "pending"
                        /\ tasks'[t].cb = <<SUCCESS>>
                        /\ ~tasks'[t].wrote]_vars

C8_Witness ==
    \E t \in Tasks :
        /\ tasks[t].state = "done"
        /\ tasks[t].res = Err("NotConnected", FALSE)
        /\ tasks[t].cb = <<ERROR_NOT_CONNECTED>>
        /\ perr[tasks[t].h] = "NotConnected"

\* C9: a handle the found callback rejected (it returned 0) was released by the
\* dispatcher exactly once, in the step of the callback; a handle the callback took
\* (any other return value) was never released by the dispatcher: it is the caller's,
\* until the caller releases it.
C9_ReleaseOnRejection ==
    \A h \in Handles :
        handles[h].state # "unalloc" =>
            /\ handles[h].ret = 0 => (handles[h].dfrees = 1 /\ handles[h].state = "freed")
            /\ handles[h].ret # 0 => (handles[h].dfrees = 0 /\ handles[h].state \in {"caller", "freed"})
            /\ events[handles[h].pos].kind \in {"DeviceDiscovered", "ServicesAdvertisement"}

C9_Witness ==
    \E h, g \in Handles :
        /\ handles[h].state = "freed" /\ handles[h].ret = 0 /\ handles[h].dfrees = 1
        /\ events[handles[h].pos].kind = "ServicesAdvertisement"
        /\ handles[g].state = "caller" /\ handles[g].ret = -1
        /\ events[handles[g].pos].kind = "DeviceDiscovered"

\* the found calls dispatcher d made for device id before it took the event at pos
Recorded(d, id, pos) ==
    {h \in Handles : /\ handles[h].state # "unalloc" /\ handles[h].by = d
                     /\ handles[h].id = id /\ handles[h].pos < pos}
\* the positions of the disconnection events dispatcher d has handled
Handled(d) ==
    {p \in 1..disp[d].pos : /\ events[p].kind = "DeviceDisconnected"
                            /\ (p = disp[d].pos => disp[d].pc # "handling")}
DisconnectedCalls(d, p) == {i \in 1..Len(disp[d].dlog) : disp[d].dlog[i].pos = p}

\* C10: for every disconnection event a dispatcher has handled, the disconnected
\* callback was invoked once, with the address recorded for the event's id, when the
\* dispatcher had recorded the id before, and not at all otherwise; every invocation
\* of the callback belongs to such an event; and handling a disconnection event does
\* not end the loop.
C10_Inv ==
    \A d \in Disps :
        /\ \A p \in Handled(d) :
              IF Recorded(d, events[p].id, p) # {}
              THEN /\ Cardinality(DisconnectedCalls(d, p)) = 1
                   /\ \A i \in DisconnectedCalls(d, p), h \in Recorded(d, events[p].id, p) :
                         disp[d].dlog[i].addr = handles[h].addr
              ELSE DisconnectedCalls(d, p) = {}
        /\ \A i \in 1..Len(disp[d].dlog) : disp[d].dlog[i].pos \in Handled(d)
C10_Step ==
    \A d \in Disps :
        (disp[d].pc = "handling" /\ CurEvent(d).kind = "DeviceDisconnected") =>
            disp'[d].pc \in {"handling", Parked(d)}
C10_Disconnected == []C10_Inv /\ [][C10_Step]_vars

C10_Witness ==
    \E d \in Disps :
        /\ disp[d].pos = 2 /\ disp[d].pc = "listening"
        /\ events[1].kind = "ServicesAdvertisement" /\ events[1].id = 2
        /\ events[2].kind = "DeviceDisconnected" /\ events[2].id = 2
        /\ Len(disp[d].dlog) = 1
        /\ disp[d].dlog[1].addr = <<0, 43707, 52445, 61183>>

\* the prefix relation on sequences
IsPrefix(a, b) == Len(a) <= Len(b) /\ a = SubSeq(b, 1, Len(a))
Registrations ==
    {t \in Tasks : tasks[t].op = "peripheral_register_notification_events"}

\* the data callbacks of a registration are the items its stream yielded, one call per
\* item and in stream order; none was made before ready reported SUCCESS, none ever
\* after ready reported a failure; ready is never called twice
C11_Order ==
    \A t \in Registrations :
        /\ Len(tasks[t].cb) <= 1
        /\ IsPrefix(tasks[t].data, tasks[t].notes)
        /\ Len(tasks[t].data) = tasks[t].npos
        /\ tasks[t].data # <<>> => tasks[t].cb = <<SUCCESS>>
        /\ tasks[t].cb # <<SUCCESS>> => tasks[t].data = <<>>

\* C11 (as claimed): for an accepted registration the ready callback fires exactly
\* once, no data callback precedes it, after a failure there is no data callback, and
\* after SUCCESS each item the stream yields has its data callback, in order, until the
\* stream ends: a registration that has ended was told ready once and was handed
\* every item of its stream.
C11_Notifications ==
    /\ C11_Order
    /\ \A t \in Registrations :
          Ended(t) => /\ Len(tasks[t].cb) = 1
                      /\ tasks[t].data = tasks[t].notes

\* what holds of the stream whatever is released: C11_Order, and a registration whose
\* task ran to its end was told ready once and was handed every item
C11_WhileRuntimeLives ==
    /\ C11_Order
    /\ \A t \in Registrations :
          tasks[t].state = "done" => /\ Len(tasks[t].cb) = 1
                                     /\ tasks[t].data = tasks[t].notes

C11_Witness ==
    \E t \in Registrations :
        /\ tasks[t].state = "done"
        /\ tasks[t].cb = <<SUCCESS>>
        /\ tasks[t].notes = <<2, 1>>
        /\ tasks[t].data = <<2, 1>>

\* the steps in which dispatcher d learns that adapter.events() failed, and that
\* adapter.peripheral(&id) failed
SubscribeFailed(d) == disp[d].pc = "subscribing" /\ disp'[d].pc = "ended"
ResolveFailed(d) ==
    /\ disp[d].pc = "resolving" /\ disp'[d].pc # "resolving"
    /\ \A h \in Handles : handles[h].state = "unalloc" => handles'[h].state = "unalloc"

\* C12 (as claimed): a failure to subscribe to the adapter's events and a failure to
\* resolve a discovered device are surfaced: the step that learns of the failure
\* records a message in the Module's error slot or in a peripheral's.
C12_ErrorsSurfaced ==
    [][\A d \in Disps :
          (SubscribeFailed(d) \/ ResolveFailed(d)) =>
              (mi'.last_error # mi.last_error \/ perr' # perr)]_vars

\* the steps in which the host calls one of the eight operations with a handle it
\* holds and, for peripheral_write, a data pointer that is not null
ValidOpCall ==
    /\ lastCall = NoCall
    /\ lastCall'.fn \in Ops
    /\ lastCall'.h # NULL
    /\ lastCall'.fn = "peripheral_write" => lastCall'.arg = <<BUF>>

\* C13: such a call returns SUCCESS and what it leaves behind is a task that has not
\* reported anything yet: the operation is pending, its callback has not been called
\* and no error is recorded; the call itself changes no other task.
C13_ReturnsAtOnce ==
    [][ValidOpCall =>
          LET t == lastCall'.n IN
          /\ lastCall'.ret = SUCCESS
          /\ t \in Tasks /\ tasks[t].state = "unused"
          /\ tasks'[t].state = "pending" /\ tasks'[t].cb = <<>>
          /\ tasks'[t].op = lastCall'.fn /\ tasks'[t].h = lastCall'.h
          /\ \A u \in Tasks \ {t} : tasks'[u] = tasks[u]
          /\ perr' = perr]_vars

\* the host has its SUCCESS while the write is still pending
C13_Witness ==
    /\ lastCall.fn = "peripheral_write"
    /\ lastCall.ret = SUCCESS
    /\ lastCall.n \in Tasks
    /\ tasks[lastCall.n].state = "pending"
    /\ tasks[lastCall.n].cb = <<>>

\* C14 (as claimed): the services shown to the found callback for an advertisement
\* are the services the advertisement event carried; for a discovery none are shown.
C14_AdvertisedServices ==
    \A h \in Handles :
        handles[h].state # "unalloc" =>
            LET ev == events[handles[h].pos] IN
            /\ ev.kind = "ServicesAdvertisement" => handles[h].shown = ev.services
            /\ ev.kind = "DeviceDiscovered" => handles[h].shown = <<>>

\* C15 (as claimed): the bytes a completed write transferred are the bytes the buffer
\* held when peripheral_write was called, whatever the caller did with the buffer
\* after the call returned.
C15_BufferReturned ==
    \A t \in Tasks :
        (tasks[t].op = "peripheral_write" /\ tasks[t].cb = <<SUCCESS>>) =>
            tasks[t].sent = tasks[t].given

\* the variants with a code of their own
DomainVariants == ErrorVariants \ {"Other"}

\* C16: the mapper gives every error exactly one code, which depends on the variant
\* alone; the eleven domain variants get eleven different codes, which are 101..111;
\* Other gets ERROR_FAIL; no error gets SUCCESS or INVALID_ARGUMENT; and a status a
\* failed scan call returned is the mapper's code for the error that was recorded,
\* the mapping having changed nothing of its own.
C16_MapperTotal ==
    /\ \A e \in AllErrors :
          /\ error_to_result(e) \in {ERROR_FAIL} \cup (ERROR_PERMISSION_DENIED..ERROR_RUNTIME_ERROR)
          /\ error_to_result(e) \notin {SUCCESS, INVALID_ARGUMENT}
          /\ error_to_result(e) = error_to_result(Err(e.v, ~e.nul))
          /\ e.v = "Other" <=> error_to_result(e) = ERROR_FAIL
    /\ \A v, w \in DomainVariants :
          error_to_result(Err(v, FALSE)) = error_to_result(Err(w, FALSE)) => v = w
    /\ {error_to_result(Err(v, FALSE)) : v \in DomainVariants}
          = ERROR_PERMISSION_DENIED..ERROR_RUNTIME_ERROR
    /\ Cardinality(DomainVariants) = 11
    /\ (lastCall.fn \in {"start_scan_peripherals", "stop_scan_peripherals", "create_module"}
         /\ lastCall.ret \notin {SUCCESS, INVALID_ARGUMENT} /\ mi.runtime) =>
            \E e \in AllErrors : /\ lastCall.ret = error_to_result(e)
                                 /\ mi.last_error = error_into_cstring(e)
                                 /\ perr = [h \in Handles |-> ""]
                                 /\ tasks = [t \in Tasks |-> NoTask]

C16_Witness ==
    /\ lastCall.fn = "stop_scan_peripherals"
    /\ lastCall.ret = ERROR_INVALID_BD_ADDR
    /\ mi.last_error = "InvalidBDAddr"
    /\ mi.adapter

\* the six low bytes of a u64 in big-endian order (the u64 as its four 16-bit limbs)
expand(l) ==
    [i \in 1..6 |-> IF i % 2 = 1 THEN l[(i + 3) \div 2] \div 256
                                  ELSE l[(i + 2) \div 2] % 256]

\* C17: get_long_addr(a) is a 64-bit value (four limbs of 16 bits) whose top 16 bits
\* are zero and whose low 48 bits are the bytes of a, most significant first; expanding
\* its six low bytes gives a back.
C17_AddrRoundTrip ==
    (lastCall.fn = "get_long_addr" /\ lastCall.out = "result") =>
        LET a == SubSeq(lastCall.arg, 1, 6)
            l == SubSeq(lastCall.arg, 7, Len(lastCall.arg))
        IN /\ Len(l) = 4
           /\ \A i \in 1..4 : l[i] \in 0..65535
           /\ l[1] = 0
           /\ \A i \in 1..3 : l[i + 1] = a[2 * i - 1] * 256 + a[2 * i]
           /\ expand(l) = a

C17_Witness ==
    /\ lastCall.fn = "get_long_addr" /\ lastCall.out = "result"
    /\ lastCall.arg = <<255, 0, 1, 128, 0, 255>> \o <<0, 65280, 384, 255>>

\* reading the buffer by offset, as its consumer does: b is the buffer, p the (1-based)
\* position; each reader returns what it read and the position after it
rd32(b, p) == b[p] + 256 * b[p + 1] + 65536 * b[p + 2] + 16777216 * b[p + 3]
rdUuid(b, p) == b[p]
RECURSIVE rdDescriptors(_, _, _)
rdDescriptors(b, p, n) ==
    IF n = 0 THEN [v |-> <<>>, p |-> p]
    ELSE LET rest == rdDescriptors(b, p + 16, n - 1)
         IN [v |-> <<rdUuid(b, p)>> \o rest.v, p |-> rest.p]
RECURSIVE rdCharacteristics(_, _, _)
rdCharacteristics(b, p, n) ==
    IF n = 0 THEN [v |-> <<>>, p |-> p]
    ELSE LET ds == rdDescriptors(b, p + 24, rd32(b, p + 20))
             rest == rdCharacteristics(b, ds.p, n - 1)
         IN [v |-> <<Char(rdUuid(b, p), b[p + 16], ds.v)>> \o rest.v, p |-> rest.p]
RECURSIVE rdServices(_, _, _)
rdServices(b, p, n) ==
    IF n = 0 THEN [v |-> <<>>, p |-> p]
    ELSE LET cs == rdCharacteristics(b, p + 20, rd32(b, p + 16))
             rest == rdServices(b, cs.p, n - 1)
         IN [v |-> <<[uuid |-> rdUuid(b, p), characteristics |-> cs.v]>> \o rest.v, p |-> rest.p]

\* C18: the buffer peripheral_get_services returned, read in sequence, gives back the
\* tree of the peripheral (counts, UUIDs, property masks, in order) and ends exactly at
\* total_size, which is the length of what was written, the header included;
\* allocated_capacity is at least total_size.
C18_BufferRoundTrip ==
    (lastCall.fn = "peripheral_get_services" /\ lastCall.ret = SUCCESS) =>
        LET b == lastCall.arg
            read == rdServices(b, 13, rd32(b, 9))
        IN /\ read.v = handles[lastCall.h].tree
           /\ read.p = Len(b) + 1
           /\ rd32(b, 1) = Len(b)
           /\ rd32(b, 5) >= rd32(b, 1)
           /\ lastCall.out = "buffer"

C18_Witness ==
    /\ lastCall.fn = "peripheral_get_services" /\ lastCall.ret = SUCCESS
    /\ Len(handles[1].tree) = 2
    /\ handles[1].tree[1].characteristics = <<>>
    /\ handles[1].tree[2].characteristics = <<Char(1, 0, <<>>), Char(2, 8, <<1, 2>>)>>
    /\ Len(lastCall.arg) = 132
    /\ rd32(lastCall.arg, 5) = 139

\* C19: the PeripheralHandle of a handle that was handed out exists as long as the
\* caller has not released the handle or a task spawned for it is in flight, and it
\* exists no longer than that; a task in flight therefore always finds it, and the
\* step that takes the last holder away is the step that destroys it.
C19_Inv ==
    \A h \in Handles :
        handles[h].state # "unalloc" =>
            (handles[h].palive <=>
                (handles[h].state = "caller"
                 \/ \E t \in Tasks : tasks[t].h = h /\ InFlight(tasks[t])))
\* a task in flight that writes the error slot writes to a PeripheralHandle that exists
C19_Step ==
    \A t \in Tasks :
        (InFlight(tasks[t]) /\ perr'[tasks[t].h] # perr[tasks[t].h]) =>
            handles[tasks[t].h].palive
C19_SharedState == []C19_Inv /\ [][C19_Step]_vars

\* the caller has released the handle and the state lives on for the pending task
C19_Witness ==
    \E t \in Tasks :
        /\ tasks[t].state = "recorded"
        /\ handles[tasks[t].h].state = "freed"
        /\ handles[tasks[t].h].palive
        /\ perr[tasks[t].h] = "NotConnected"
        /\ mi.alive

\* C20 (as claimed): after free_module, whenever no dispatcher is before its subscription
\* or in the middle of resolving a device (so every dispatcher holds at most its weak
\* reference), the Module's internal state has been torn down, however many events
\* were processed and whatever the dispatcher created.
DispatcherHoldsWeakOnly == \A d \in Disps : disp[d].pc \notin {"subscribing", "resolving"}
C20_TornDownAfterFree ==
    (modHandle = "freed" /\ DispatcherHoldsWeakOnly) => ~mi.alive

\* C21 (as claimed): no execution aborts on a last-error lock: no call of an entry
\* point that takes the lock ends in a panic, on the host's thread or inside a
\* completion callback on a worker thread, and every task that recorded a failure
\* gets to the end of its callback.
C21_NoAbortOnLock ==
    /\ lastCall.out # "abort"
    /\ \A t \in Tasks : tasks[t].state # "panicked"

\* C22: the dispatcher loop ends when the Module's internal state is gone or the event
\* stream ends, and for no other reason.  Whenever the Module's internal state is gone
\* (the weak reference does not resolve) a dispatcher is over or is running the arm of
\* an event it had already taken, and then it is over eventually; a dispatcher in its
\* loop leaves it only in a step after which the Module's internal state is gone, or
\* from events.next() (the stream ended); a failed lookup and a disconnection of an
\* unknown id take it back to events.next().
InLoop(d) == disp[d].pc \in {"listening", "handling", "resolving"}
Exited(d) == disp[d].pc \in {"ended", "cancelled", "panicked"}
C22_Released ==
    \A d \in Disps : (~mi.alive /\ disp[d].pc # "unused") => (Exited(d) \/ disp[d].pc = "handling")
C22_ExitStep ==
    \A d \in Disps :
        (InLoop(d) /\ disp'[d].pc \in {"ended", "cancelled", "panicked"}) =>
            (~mi'.alive \/ disp[d].pc = "listening")
C22_StaysStep ==
    \A d \in Disps :
        /\ (disp[d].pc = "resolving" /\ mi'.alive) => disp'[d].pc \in {"resolving", "listening"}
        /\ (disp[d].pc = "handling" /\ mi.alive /\ CurEvent(d).kind = "DeviceDisconnected")
              => disp'[d].pc \in {"handling", "listening"}
C22_LoopTerminates ==
    /\ []C22_Released
    /\ [][C22_ExitStep /\ C22_StaysStep]_vars
    /\ \A d \in Disps : (~mi.alive /\ InLoop(d)) ~> Exited(d)
    /\ \A d \in Disps : [](Exited(d) => []Exited(d))

\* the Module's internal state went after the dispatcher took a discovery from the
\* stream: the weak reference did not resolve, no handle was made, the loop is over
C22_Witness ==
    /\ ~mi.alive
    /\ modHandle = "freed"
    /\ disp[1].pc = "ended"
    /\ disp[1].pos > 0
    /\ events[disp[1].pos].kind = "DeviceDiscovered"
    /\ \A h \in Handles : handles[h].state = "unalloc"

\* C23 (as claimed): whatever calls of set_event_callbacks were made on the Module, at
\* most one dispatcher task is running, and for every event of the adapter at most one
\* call of the found callback or of the disconnected callback was made.
Running(d) == disp[d].pc \in {"subscribing", "listening", "handling", "resolving"}
CallbacksFor(pos) ==
    Cardinality({h \in Handles : handles[h].state # "unalloc" /\ handles[h].pos = pos})
    + Cardinality({d \in Disps : \E i \in 1..Len(disp[d].dlog) : disp[d].dlog[i].pos = pos})
C23_OneDispatcher ==
    /\ Cardinality({d \in Disps : Running(d)}) <= 1
    /\ \A pos \in 1..Len(events) : CallbacksFor(pos) <= 1

\* C24: every call of the found callback, whatever it returned, left the entry of the
\* device's id in the dispatcher's table, holding the address the callback was given;
\* no step removes an entry; every successful lookup makes a new handle for the event
\* taken and writes the entry again; and a dispatcher that handles a disconnection of an
\* id with an entry calls the disconnected callback with that address, whether or not
\* the caller holds a handle of the device.
C24_Entries ==
    \A h \in Handles :
        handles[h].state # "unalloc" =>
            disp[handles[h].by].map[handles[h].id] = handles[h].addr
C24_Step ==
    /\ \A d \in Disps, id \in DeviceIds :
          disp[d].map[id] # NoAddr => disp'[d].map[id] # NoAddr
    /\ \A h \in Handles :
          (handles[h].state = "unalloc" /\ handles'[h].state # "unalloc") =>
              LET d == handles'[h].by IN
              /\ disp[d].pc = "resolving"
              /\ handles'[h].pos = disp[d].pos
              /\ handles'[h].id = CurEvent(d).id
              /\ handles'[h].addr # NoAddr
              /\ disp'[d].map[CurEvent(d).id] = handles'[h].addr
    /\ \A d \in Disps :
          (/\ disp[d].pc = "handling" /\ disp'[d].pc # "handling"
           /\ CurEvent(d).kind = "DeviceDisconnected"
           /\ disp[d].map[CurEvent(d).id] # NoAddr) =>
              disp'[d].dlog = Append(disp[d].dlog, [pos |-> disp[d].pos,
                                                    addr |-> disp[d].map[CurEvent(d).id]])
C24_EntryKept == []C24_Entries /\ [][C24_Step]_vars

\* the callback rejected the only handle of the device, and the later disconnection of
\* the device was still reported with its address
C24_Witness ==
    \E h \in Handles :
        /\ handles[h].state = "freed" /\ handles[h].ret = 0 /\ handles[h].dfrees = 1
        /\ \A g \in Handles \ {h} : handles[g].state = "unalloc"
        /\ LET d == handles[h].by IN
           \E i \in 1..Len(disp[d].dlog) :
              /\ disp[d].dlog[i].pos > handles[h].pos
              /\ disp[d].dlog[i].addr = handles[h].addr
              /\ events[disp[d].dlog[i].pos] = Event("DeviceDisconnected", handles[h].id, <<>>)

\* the execution context exists while some peripheral handle is unreleased
C25_RuntimeKept ==
    (\E h \in Handles : handles[h].state = "caller") => (mi.alive /\ mi.runtime)
\* an operation submitted on a handle after free_module returned SUCCESS and has a task
C25_Accepted ==
    (lastCall.fn = "peripheral_connect" /\ lastCall.h # NULL) =>
        /\ modHandle = "freed"
        /\ lastCall.ret = SUCCESS
        /\ tasks[lastCall.n].state # "unused"
\* C25 (as claimed): while a peripheral handle is unreleased the execution context
\* exists; an operation submitted on a handle after free_module is accepted; and its
\* task is never dropped before it has invoked the completion callback.
C25_ServedAfterFree ==
    /\ C25_RuntimeKept
    /\ C25_Accepted
    /\ \A t \in Tasks : tasks[t].state = "cancelled" => tasks[t].cb # <<>>

====
